---- MODULE Spec2Model ----
(***************************************************************************)
(* Model of src/matrix-scraper.js: the async function scrapeMatrixMLS, the *)
(* callback it hands to page.evaluate, and the single call at line 72.     *)
(*                                                                         *)
(* A text is a sequence of one-character strings.  A row is the sequence   *)
(* of the texts of its td cells (row.querySelectorAll('td'), line 43).     *)
(* The document is the sequence, in document order, of the rows matching   *)
(* tr[class*="SearchResult"] (line 39).                                    *)
(***************************************************************************)
EXTENDS Naturals, Sequences, FiniteSets

VARIABLES
    document,    \* the matching rows of the page the callback runs in
    pc,          \* the statement scrapeMatrixMLS is about to execute
    browser,     \* "none", "open" or "closed"
    closeCalls,  \* number of calls of browser.close()
    formLoaded,  \* whether #Username is in the page that page.goto loaded
    authed,      \* whether the operator logged in during the first wait
    trace,       \* the steps taken so far (the awaited calls and the report)
    raised,      \* the awaited calls that threw, in order
    caught,      \* number of times the catch block was entered
    escaped,     \* TRUE when the promise of scrapeMatrixMLS was rejected
    properties,  \* the const of line 38 (<<>> until it is bound)
    bound,       \* TRUE once properties is bound
    console,     \* the lines written to the console, as tags
    counts,      \* the values printed by line 59
    samples      \* the values printed by line 60

vars == <<document, pc, browser, closeCalls, formLoaded, authed, trace, raised,
          caught, escaped, properties, bound, console, counts, samples>>

(***************************************************************************)
(* Bounds of the model.                                                    *)
(***************************************************************************)
MaxRows == 4       \* rows of a page of listing rows
MaxCells == 7      \* cells of the row of a one-row page
MaxRowChars == 3   \* characters in all the cells of that row together

(***************************************************************************)
(* Program constants.                                                      *)
(***************************************************************************)
SampleEnd == 3     \* properties.slice(0, 3)

WhiteSpace == {" ", "\t", "\n"}
Chars == {" ", "a"}

Min(a, b) == IF a < b THEN a ELSE b

(***************************************************************************)
(* String.prototype.trim.                                                  *)
(***************************************************************************)
RECURSIVE TrimStart(_)
TrimStart(s) ==
    IF s # <<>> /\ Head(s) \in WhiteSpace THEN TrimStart(Tail(s)) ELSE s

RECURSIVE TrimEnd(_)
TrimEnd(s) ==
    IF s # <<>> /\ s[Len(s)] \in WhiteSpace
    THEN TrimEnd(SubSeq(s, 1, Len(s) - 1))
    ELSE s

TrimStartOnly(s) == TrimStart(s)

Trim(s) == TrimEnd(TrimStart(s))

(***************************************************************************)
(* cells[i]?.textContent?.trim() || ''   (i counts from 0)                 *)
(***************************************************************************)
CellText(cells, i) ==
    IF i < Len(cells)
    THEN LET t == Trim(cells[i + 1]) IN IF t = <<>> THEN <<>> ELSE t
    ELSE <<>>

\* the object literal of lines 45-52
RowRecord(cells) ==
    [mlsNumber |-> CellText(cells, 0), address |-> CellText(cells, 1),
     price |-> CellText(cells, 2), beds |-> CellText(cells, 3),
     baths |-> CellText(cells, 4), sqft |-> CellText(cells, 5)]

(***************************************************************************)
(* The callback of page.evaluate: rows.forEach pushes one record for each  *)
(* row that has at least one cell.                                         *)
(***************************************************************************)
RECURSIVE ForEachRow(_, _, _)
ForEachRow(rows, i, data) ==
    IF i > Len(rows)
    THEN data
    ELSE ForEachRow(rows, i + 1,
                    IF Len(rows[i]) > 0
                    THEN Append(data, RowRecord(rows[i]))
                    ELSE data)

RECURSIVE ForEachRowUnshift(_, _, _)
ForEachRowUnshift(rows, i, data) ==
    IF i > Len(rows)
    THEN data
    ELSE ForEachRowUnshift(rows, i + 1,
                           IF Len(rows[i]) > 0
                           THEN <<RowRecord(rows[i])>> \o data
                           ELSE data)

ExtractUnshift(rows) == ForEachRowUnshift(rows, 1, <<>>)

Extract(rows) == ForEachRow(rows, 1, <<>>)

(***************************************************************************)
(* Array.prototype.slice for 0 <= start <= end.                            *)
(***************************************************************************)
Slice(s, start, end) == SubSeq(s, start + 1, Min(end, Len(s)))

SampleOfFour(props) == Slice(props, 0, SampleEnd + 1)

Sample(props) == Slice(props, 0, SampleEnd)

(***************************************************************************)
(* The pages the run may find itself on.                                   *)
(***************************************************************************)
RECURSIVE RowsOf(_, _)
\* the rows of exactly k cells that hold at most c characters in all
RowsOf(k, c) ==
    IF k = 0
    THEN {<<>>}
    ELSE UNION { { Append(r, t) : r \in RowsOf(k - 1, c - n),
                                  t \in [1..n -> Chars] } : n \in 0..c }

ListingRows ==
    { <<>>,
      << <<"a">> >>,
      << <<"b">>, <<" ", "c">> >>,
      << <<>>, <<"d">> >> }

ListingPages == UNION { [1..n -> ListingRows] : n \in 0..MaxRows }

OneRowPages ==
    { <<r>> : r \in UNION { RowsOf(k, MaxRowChars) : k \in 0..MaxCells } }

Pages == ListingPages \cup OneRowPages

Init ==
    /\ document \in Pages
    /\ pc = "launch"
    /\ browser = "none"
    /\ closeCalls = 0
    /\ formLoaded = FALSE
    /\ authed = FALSE
    /\ trace = <<>>
    /\ raised = <<>>
    /\ caught = 0
    /\ escaped = FALSE
    /\ properties = <<>>
    /\ bound = FALSE
    /\ console = <<>>
    /\ counts = <<>>
    /\ samples = <<>>

(***************************************************************************)
(* Control flow of scrapeMatrixMLS.  An awaited call either returns or     *)
(* throws; ok is that outcome.  A throw inside the try block (lines 13-61) *)
(* enters the catch block; a throw anywhere else rejects the promise.      *)
(***************************************************************************)
Log(lines) == console' = console \o lines

Returns(call, next) ==
    /\ trace' = Append(trace, call)
    /\ pc' = next
    /\ UNCHANGED <<raised, escaped>>

ThrowsInTry(call) ==
    /\ trace' = Append(trace, call)
    /\ raised' = Append(raised, call)
    /\ pc' = "catch"
    /\ UNCHANGED escaped

ThrowsOutside(call) ==
    /\ trace' = Append(trace, call)
    /\ raised' = Append(raised, call)
    /\ escaped' = TRUE
    /\ pc' = "done"

\* lines 4-9
Launch ==
    /\ pc = "launch"
    /\ Log(<<"starting">>)
    /\ \E ok \in BOOLEAN :
          IF ok
          THEN Returns("launch", "newPage") /\ browser' = "open"
          ELSE ThrowsOutside("launch") /\ UNCHANGED browser
    /\ UNCHANGED <<document, closeCalls, formLoaded, authed, caught,
                   properties, bound, counts, samples>>

\* line 11
NewPage ==
    /\ pc = "newPage"
    /\ \E ok \in BOOLEAN :
          IF ok THEN Returns("newPage", "goto") ELSE ThrowsOutside("newPage")
    /\ UNCHANGED <<document, browser, closeCalls, formLoaded, authed, caught,
                   properties, bound, console, counts, samples>>

\* lines 15-16; the page that was loaded has the login form or has not
Goto ==
    /\ pc = "goto"
    /\ Log(<<"goingToLogin">>)
    /\ \E ok \in BOOLEAN :
          IF ok
          THEN Returns("goto", "waitForSelector") /\ formLoaded' \in BOOLEAN
          ELSE ThrowsInTry("goto") /\ UNCHANGED formLoaded
    /\ UNCHANGED <<document, browser, closeCalls, authed, caught,
                   properties, bound, counts, samples>>

\* line 19: times out when #Username does not appear
WaitForSelector ==
    /\ pc = "waitForSelector"
    /\ \E ok \in BOOLEAN :
          IF ok /\ formLoaded
          THEN Returns("waitForSelector", "loginWait")
          ELSE ThrowsInTry("waitForSelector")
    /\ UNCHANGED <<document, browser, closeCalls, formLoaded, authed, caught,
                   properties, bound, console, counts, samples>>

\* lines 28-33 preceded by a check that the operator is logged in
SearchWaitCheckingLogin ==
    /\ pc = "searchWait"
    /\ Log(<<"lookingForSearch", "navigateManually", "youHave20">>)
    /\ IF authed
       THEN \E ok \in BOOLEAN :
               IF ok
               THEN Returns("searchWait", "evaluate")
               ELSE ThrowsInTry("searchWait")
       ELSE /\ raised' = Append(raised, "loginCheck")
            /\ pc' = "catch"
            /\ UNCHANGED <<trace, escaped>>
    /\ UNCHANGED <<document, browser, closeCalls, formLoaded, authed, caught,
                   properties, bound, counts, samples>>

\* lines 21-25; the operator logs in meanwhile, or does not
LoginWait ==
    /\ pc = "loginWait"
    /\ Log(<<"enterCredentials", "youHave30">>)
    /\ \E ok \in BOOLEAN :
          IF ok
          THEN Returns("loginWait", "searchWait") /\ authed' \in BOOLEAN
          ELSE ThrowsInTry("loginWait") /\ UNCHANGED authed
    /\ UNCHANGED <<document, browser, closeCalls, formLoaded, caught,
                   properties, bound, counts, samples>>

\* lines 28-33
SearchWait ==
    /\ pc = "searchWait"
    /\ Log(<<"lookingForSearch", "navigateManually", "youHave20">>)
    /\ \E ok \in BOOLEAN :
          IF ok THEN Returns("searchWait", "evaluate") ELSE ThrowsInTry("searchWait")
    /\ UNCHANGED <<document, browser, closeCalls, formLoaded, authed, caught,
                   properties, bound, counts, samples>>

\* lines 36-57 with a callback that throws when it collected no record
EvaluateRejectingEmpty ==
    /\ pc = "evaluate"
    /\ Log(<<"extracting">>)
    /\ \E ok \in BOOLEAN :
          IF ok /\ Extract(document) # <<>>
          THEN /\ Returns("evaluate", "report")
               /\ properties' = Extract(document)
               /\ bound' = TRUE
          ELSE /\ ThrowsInTry("evaluate")
               /\ UNCHANGED <<properties, bound>>
    /\ UNCHANGED <<document, browser, closeCalls, formLoaded, authed, caught,
                   counts, samples>>

\* lines 36-57
Evaluate ==
    /\ pc = "evaluate"
    /\ Log(<<"extracting">>)
    /\ \E ok \in BOOLEAN :
          IF ok
          THEN /\ Returns("evaluate", "report")
               /\ properties' = Extract(document)
               /\ bound' = TRUE
          ELSE /\ ThrowsInTry("evaluate")
               /\ UNCHANGED <<properties, bound>>
    /\ UNCHANGED <<document, browser, closeCalls, formLoaded, authed, caught,
                   counts, samples>>

\* lines 59-60
Report ==
    /\ pc = "report"
    /\ Log(<<"found", "sample">>)
    /\ counts' = Append(counts, Len(properties))
    /\ samples' = Append(samples, Sample(properties))
    /\ trace' = Append(trace, "report")
    /\ pc' = "finally"
    /\ UNCHANGED <<document, browser, closeCalls, formLoaded, authed, raised,
                   caught, escaped, properties, bound>>

\* lines 62-63 with a handler that goes straight to browser.close()
CatchSkippingWait ==
    /\ pc = "catch"
    /\ caught' = caught + 1
    /\ Log(<<"error">>)
    /\ pc' = "close"
    /\ UNCHANGED <<document, browser, closeCalls, formLoaded, authed, trace,
                   raised, escaped, properties, bound, counts, samples>>

\* lines 62-63 with a handler that reports what the page holds
CatchSalvaging ==
    /\ pc = "catch"
    /\ caught' = caught + 1
    /\ Log(<<"error", "found", "sample">>)
    /\ counts' = Append(counts, Len(Extract(document)))
    /\ samples' = Append(samples, Sample(Extract(document)))
    /\ pc' = "finally"
    /\ UNCHANGED <<document, browser, closeCalls, formLoaded, authed, trace,
                   raised, escaped, properties, bound>>

\* lines 62-63
Catch ==
    /\ pc = "catch"
    /\ caught' = caught + 1
    /\ Log(<<"error">>)
    /\ pc' = "finally"
    /\ UNCHANGED <<document, browser, closeCalls, formLoaded, authed, trace,
                   raised, escaped, properties, bound, counts, samples>>

\* lines 64-66
CleanupWait ==
    /\ pc = "finally"
    /\ Log(<<"keepingOpen">>)
    /\ \E ok \in BOOLEAN :
          IF ok THEN Returns("cleanupWait", "close") ELSE ThrowsOutside("cleanupWait")
    /\ UNCHANGED <<document, browser, closeCalls, formLoaded, authed, caught,
                   properties, bound, counts, samples>>

\* line 67
Close ==
    /\ pc = "close"
    /\ closeCalls' = closeCalls + 1
    /\ \E ok \in BOOLEAN :
          IF ok
          THEN Returns("close", "done") /\ browser' = "closed"
          ELSE ThrowsOutside("close") /\ UNCHANGED browser
    /\ UNCHANGED <<document, formLoaded, authed, caught, properties, bound,
                   console, counts, samples>>

Next ==
    \/ Launch
    \/ NewPage
    \/ Goto
    \/ WaitForSelector
    \/ LoginWait
    \/ SearchWait
    \/ Evaluate
    \/ Report
    \/ Catch
    \/ CleanupWait
    \/ Close

Spec == Init /\ [][Next]_vars

(***************************************************************************)
(* Vocabulary of the properties.                                           *)
(***************************************************************************)
Has(seq, x) == \E i \in 1..Len(seq) : seq[i] = x

Count(seq, x) == Cardinality({ i \in 1..Len(seq) : seq[i] = x })

Completed(call) == Has(trace, call) /\ ~Has(raised, call)

Ended == pc = "done"

\* the rows that have at least one cell, in document order
CellRows(rows) == SelectSeq(rows, LAMBDA r : Len(r) > 0)

FieldNames == {"mlsNumber", "address", "price", "beds", "baths", "sqft"}

\* the field of a record that the claim pairs with cell k (counted from 0)
Field(rec, k) ==
    CASE k = 0 -> rec.mlsNumber
      [] k = 1 -> rec.address
      [] k = 2 -> rec.price
      [] k = 3 -> rec.beds
      [] k = 4 -> rec.baths
      [] k = 5 -> rec.sqft

\* f is t without the whitespace around it
IsTrimmed(f, t) ==
    /\ f # <<>> => f[1] \notin WhiteSpace /\ f[Len(f)] \notin WhiteSpace
    /\ \E a \in 0..Len(t) : \E b \in 0..(Len(t) - a) :
          /\ f = SubSeq(t, a + 1, Len(t) - b)
          /\ \A j \in 1..a : t[j] \in WhiteSpace
          /\ \A j \in (Len(t) - b + 1)..Len(t) : t[j] \in WhiteSpace

\* the step sequence as the specification lists it
ListedSteps ==
    <<"launch", "goto", "loginWait", "searchWait", "evaluate", "report",
      "cleanupWait", "close">>

\* the step sequence of the function body
BodySteps ==
    <<"launch", "newPage", "goto", "waitForSelector", "loginWait",
      "searchWait", "evaluate", "report", "cleanupWait", "close">>

Pos(steps, x) == CHOOSE i \in 1..Len(steps) : steps[i] = x

NoStepTwice == \A i, j \in 1..Len(trace) : trace[i] = trace[j] => i = j

(***************************************************************************)
(* C1: on every run in which the browser was launched, browser.close() is  *)
(* called exactly once before the run ends, whatever step fails.           *)
(* Fails: a throw of browser.newPage() (line 11, outside the try) or of    *)
(* the cleanup wait (line 66, inside the finally) ends the run with no     *)
(* call of browser.close().                                                *)
(***************************************************************************)
C1_ClosedExactlyOnce ==
    (Ended /\ Completed("launch")) =>
        (closeCalls = 1 /\ Count(trace, "close") = 1)

(***************************************************************************)
(* C2: if page.evaluate throws, the run still executes the cleanup wait    *)
(* followed by browser.close(), each exactly once.                         *)
(* Fails: when the cleanup wait throws as well, close is never called.     *)
(***************************************************************************)
C2_CleanupAfterExtractionFailure ==
    (Ended /\ Has(raised, "evaluate")) =>
        /\ Count(trace, "cleanupWait") = 1
        /\ Count(trace, "close") = 1
        /\ closeCalls = 1

(***************************************************************************)
(* C3: a failure raised during navigation, during any wait or during       *)
(* extraction is caught exactly once by the handler and printed, the run   *)
(* goes on to the cleanup wait and to the browser close, and the failure   *)
(* does not escape scrapeMatrixMLS.                                        *)
(* Fails: a failure of the cleanup wait is not caught, rejects the promise *)
(* and skips browser.close().                                              *)
(***************************************************************************)
C3_FailureCaughtOnce ==
    (Ended /\ \E c \in {"goto", "waitForSelector", "loginWait", "searchWait",
                        "evaluate", "cleanupWait"} : Has(raised, c)) =>
        /\ caught = 1
        /\ Count(console, "error") = 1
        /\ ~escaped
        /\ Has(trace, "cleanupWait")
        /\ Has(trace, "close")

(***************************************************************************)
(* C4 as stated: the extractor returns exactly one record per matching     *)
(* row, the i-th record built from the i-th matching row.                  *)
(***************************************************************************)
C4_OneRecordPerRow ==
    bound =>
        /\ Len(properties) = Len(document)
        /\ \A i \in 1..Len(properties) :
              properties[i] = RowRecord(document[i])

(***************************************************************************)
(* C4 as amended: the extractor returns exactly one record per matching    *)
(* row that has at least one td cell, in the document order of those rows; *)
(* a matching row with no td cell yields no record.                        *)
(***************************************************************************)
C4_OneRecordPerRowWithCells ==
    bound =>
        /\ Len(properties) = Len(CellRows(document))
        /\ Len(properties) =
              Cardinality({ i \in 1..Len(document) : document[i] # <<>> })
        /\ \A i \in 1..Len(properties) :
              properties[i] = RowRecord(CellRows(document)[i])

C4_Witness ==
    /\ bound
    /\ Len(document) = 4
    /\ document[2] = <<>>
    /\ Len(properties) = 3
    /\ properties[1] # properties[2]
    /\ properties[2] # properties[3]

(***************************************************************************)
(* C5: every record has exactly the six fields mlsNumber, address, price,  *)
(* beds, baths, sqft, taken from cells 0 to 5 in that order; a field whose *)
(* cell is missing or empty is the empty string, a field whose cell has    *)
(* text is that text without the whitespace around it, and the cells       *)
(* beyond the sixth are ignored.                                           *)
(***************************************************************************)
C5_SixTrimmedFields ==
    bound =>
        \A i \in 1..Len(properties) :
            LET rec == properties[i]
                cells == CellRows(document)[i]
            IN  /\ DOMAIN rec = FieldNames
                /\ \A k \in 0..5 :
                      IF k < Len(cells)
                      THEN IsTrimmed(Field(rec, k), cells[k + 1])
                      ELSE Field(rec, k) = <<>>

C5_Witness ==
    /\ bound
    /\ Len(document) = 1
    /\ Len(document[1]) = 7
    /\ document[1][2] = <<" ", "a">>
    /\ document[1][7] = <<"a">>
    /\ Len(properties) = 1
    /\ properties[1].address = <<"a">>
    /\ properties[1].sqft = <<>>

(***************************************************************************)
(* C6: on a page with no matching row the extraction returns the empty     *)
(* sequence and raises no error: page.evaluate can return there, and when  *)
(* it returns the run is on the success path, the handler is not entered   *)
(* and a count of 0 is reported.                                           *)
(***************************************************************************)
C6_NoRowsIsSuccess ==
    document = <<>> =>
        /\ pc = "evaluate" =>
              ENABLED (Evaluate /\ pc' = "report" /\ properties' = <<>>)
        /\ Completed("evaluate") =>
              /\ bound
              /\ properties = <<>>
              /\ caught = 0
              /\ ~Has(console, "error")
              /\ pc \in {"report", "finally", "close", "done"}
              /\ pc # "report" => counts = <<0>> /\ samples = << <<>> >>

C6_Witness ==
    /\ document = <<>>
    /\ Ended
    /\ Completed("evaluate")
    /\ counts = <<0>>
    /\ caught = 0

(***************************************************************************)
(* C7: when extraction succeeds with n records the report prints the count *)
(* n and a sample that is exactly the first min(3, n) records in           *)
(* extraction order: never more than three, never a record that was not    *)
(* extracted.                                                              *)
(***************************************************************************)
C7_CountAndSample ==
    (bound /\ pc # "report") =>
        LET n == Len(properties) IN
        /\ counts = <<n>>
        /\ Len(samples) = 1
        /\ Len(samples[1]) = (IF n < 3 THEN n ELSE 3)
        /\ Len(samples[1]) <= 3
        /\ \A i \in 1..Len(samples[1]) : samples[1][i] = properties[i]

C7_Witness ==
    /\ bound
    /\ Ended
    /\ counts = <<4>>
    /\ Len(samples[1]) = 3
    /\ samples[1][3] = properties[3]
    /\ properties[4] # properties[3]

(***************************************************************************)
(* C8 as stated: every run is a prefix-respecting pass through launch,     *)
(* navigate, wait, wait, extract, report, wait, close: no step runs before *)
(* the step listed ahead of it has completed, no step runs twice, and on a *)
(* run with no failure the steps occur in that order with nothing else     *)
(* between navigate and the first operator wait.                           *)
(***************************************************************************)
C8_ListedStepsOnly ==
    /\ NoStepTwice
    /\ \A k \in 2..Len(ListedSteps) :
          Has(trace, ListedSteps[k]) => Completed(ListedSteps[k - 1])
    /\ \A i \in 1..Len(trace) :
          (trace[i] = "goto" /\ Has(trace, "loginWait")) =>
              (i < Len(trace) /\ trace[i + 1] = "loginWait")
    /\ (Ended /\ raised = <<>>) =>
          SelectSeq(trace, LAMBDA x : Has(ListedSteps, x)) = ListedSteps

(***************************************************************************)
(* C8 as amended: every run is a pass through launch, newPage, navigate,   *)
(* login-form wait, operator wait, operator wait, extract, report, cleanup *)
(* wait, close: steps run in that order only and none runs twice; a step   *)
(* from newPage to report runs only after the step ahead of it has         *)
(* completed; the cleanup wait runs only after newPage has completed and   *)
(* close only after the cleanup wait has completed; on a run with no       *)
(* failure the steps occur in exactly that order, the login-form wait      *)
(* between navigate and the first operator wait.                           *)
(***************************************************************************)
C8_LinearScript ==
    /\ NoStepTwice
    /\ \A i \in 1..Len(trace) : Has(BodySteps, trace[i])
    /\ \A i, j \in 1..Len(trace) :
          i < j => Pos(BodySteps, trace[i]) < Pos(BodySteps, trace[j])
    /\ \A k \in 2..8 :
          Has(trace, BodySteps[k]) => Completed(BodySteps[k - 1])
    /\ Has(trace, "cleanupWait") => Completed("newPage")
    /\ Has(trace, "close") => Completed("cleanupWait")
    /\ (Ended /\ raised = <<>>) => trace = BodySteps

C8_Witness ==
    /\ Ended
    /\ raised = <<>>
    /\ trace = BodySteps
    /\ trace[4] = "waitForSelector"

(***************************************************************************)
(* C9: if page.evaluate throws, no records are reported: neither the count *)
(* line nor the sample is printed on that run and properties is never      *)
(* bound.                                                                  *)
(***************************************************************************)
C9_NothingReportedAfterFailure ==
    Has(raised, "evaluate") =>
        /\ counts = <<>>
        /\ samples = <<>>
        /\ ~Has(console, "found")
        /\ ~Has(console, "sample")
        /\ ~bound

C9_Witness ==
    /\ Ended
    /\ ~escaped
    /\ raised = <<"evaluate">>
    /\ Len(CellRows(document)) >= 2
    /\ caught = 1

(***************************************************************************)
(* C10 as stated: whenever page.goto returns without raising, the run      *)
(* proceeds through both operator waits and reaches the extraction step.   *)
(***************************************************************************)
C10_GotoReturnedReachesExtraction ==
    (Completed("goto") /\ pc \notin {"waitForSelector", "loginWait",
                                     "searchWait", "evaluate"}) =>
        /\ Has(trace, "loginWait")
        /\ Has(trace, "searchWait")
        /\ Has(trace, "evaluate")

(***************************************************************************)
(* C10 as amended: the driver detects no failure of login or navigation    *)
(* other than an error raised by page.goto or by the 10 s wait for the     *)
(* login form (#Username): whenever page.goto returns, the login form is   *)
(* found and neither operator wait raises, the run proceeds through both   *)
(* operator waits and reaches the extraction step, whether or not the      *)
(* operator authenticated; when the login form is not found the wait for   *)
(* it raises and the extraction step is not reached.                       *)
(***************************************************************************)
C10_FormFoundReachesExtraction ==
    /\ (/\ Completed("goto")
        /\ \A c \in {"waitForSelector", "loginWait", "searchWait"} :
              ~Has(raised, c)
        /\ pc \notin {"waitForSelector", "loginWait", "searchWait",
                      "evaluate"}) =>
          /\ Completed("waitForSelector")
          /\ Completed("loginWait")
          /\ Completed("searchWait")
          /\ Has(trace, "evaluate")
    /\ (Has(trace, "waitForSelector") /\ ~formLoaded) =>
          (Has(raised, "waitForSelector") /\ ~Has(trace, "evaluate"))

C10_Witness ==
    /\ Ended
    /\ ~authed
    /\ formLoaded
    /\ Completed("searchWait")
    /\ Completed("evaluate")

====
